---- MODULE Spec2Model ----
(***************************************************************************)
(* OpenCache (evanjt06/opencache): a bounded LRU key-value cache with      *)
(* optional per-key TTL and an append-only log, cache/cache.go.            *)
(*                                                                         *)
(* A cache is a record with the fields of struct OpenCache.  The map holds *)
(* pointers to list elements, so list elements have identities (small      *)
(* naturals): Cache maps a key to an element, LRU_deque is the list of     *)
(* elements front to back, Value maps an element to the entry it holds.    *)
(* Time is counted in ticks; a millisecond is TicksPerMs ticks.            *)
(***************************************************************************)
EXTENDS Integers, Sequences, FiniteSets, TLC

VARIABLES kv, files, now, ret, ctor, touched, Mu, pc, call, applied, replay

(* the state of the callers that run in parallel: the holder of each       *)
(* cache's mutex, where each caller is in its call, the call it is in, the *)
(* Sets and Deletes in the order they changed the memory of A, and where a *)
(* ReplayLog that runs beside other callers is in its file                 *)
conc == <<Mu, pc, call, applied, replay>>

vars == <<kv, files, now, ret, ctor, touched, Mu, pc, call, applied, replay>>

----------------------------------------------------------------------------
(* Bounds of the model *)

MaxCapacity == 2
MaxTime == 2
MaxLog == 3
NProcs == 2
MaxSleeps == 2

(* A time.Duration is a number of ticks; ttl.Milliseconds() divides by this *)
TicksPerMs == 2

(* nil pointers and pointers: <<>> is nil, <<x>> points to x *)
Nil == <<>>
Ptr(x) == <<x>>
Deref(p) == p[1]

(* interface{} values carry their dynamic type *)
GoString(s) == [typ |-> "string", val |-> s]
GoInt(s) == [typ |-> "int", val |-> s]
GoFloat64(s) == [typ |-> "float64", val |-> s]
NilIface == [typ |-> "nil", val |-> ""]
Slice(s) == [typ |-> "[]int", val |-> s]

StringKeys == {GoString("a"), GoString("b"), GoString("c")}
Keys == StringKeys \cup {NilIface}
Values == {GoInt("1"), GoString("x")}
TTLs == {Nil, Ptr(1)}
DefaultLogPath == "appendonly.aof"
TestLogPath == "test_appendonly.aof"
LogPaths == {TestLogPath}
Insts == {"A", "B"}
Procs == 1..NProcs

----------------------------------------------------------------------------
(* container/list *)

Remove(l, e) == SelectSeq(l, LAMBDA x : x # e)

InList(l, e) == \E i \in 1..Len(l) : l[i] = e

MoveToFront(l, e) == IF InList(l, e) THEN <<e>> \o Remove(l, e) ELSE l

PushFront(l, e) == <<e>> \o l

Back(l) == IF Len(l) = 0 THEN Nil ELSE Ptr(l[Len(l)])

(* map delete and map store *)
MapDelete(m, k) == [x \in (DOMAIN m) \ {k} |-> m[x]]

MapStore(m, k, v) == [x \in (DOMAIN m) \cup {k} |-> IF x = k THEN v ELSE m[x]]

(* the elements the list or the map still refers to *)
Used(c) == {c.LRU_deque[i] : i \in 1..Len(c.LRU_deque)} \cup {c.Cache[k] : k \in DOMAIN c.Cache}

(* a freshly allocated list element: the least identity not in use *)
NewElem(c) == CHOOSE e \in 1..(Cardinality(Used(c)) + 1) : e \notin Used(c) /\ \A f \in 1..(e - 1) : f \in Used(c)

(* garbage collection: an element nothing refers to no longer exists *)
Collect(c) == [c EXCEPT !.Value = [e \in Used(c) |-> c.Value[e]]]

----------------------------------------------------------------------------
(* internal/utils.go *)

(* the validator without the reflect test of lines 12-14 *)
ValidateKeyNilOnly(key) == IF key.typ = "nil" THEN "key cannot be nil" ELSE "ok"

ValidateKey(key) == IF key.typ = "nil" THEN "key cannot be nil" ELSE IF key.typ = "[]int" THEN "invalid key type" ELSE "ok"

----------------------------------------------------------------------------
(* cache/cache.go *)

NewOpenCache(capacity, persistent, logPath) ==
  [Cache |-> [k \in {} |-> 0],
   LRU_deque |-> <<>>,
   Value |-> [e \in {} |-> 0],
   Capacity |-> IF capacity < 1 THEN 1 ELSE capacity,
   Persistent |-> persistent,
   LogPath |-> logPath]

(* the comparison of line 58 the wrong way round *)
Before(t, u) == t < u

(* time.Now().After(t) *)
After(t, u) == t > u

(* Duration.Milliseconds(): integer division truncating toward zero *)
Milliseconds(d) == IF d >= 0 THEN d \div TicksPerMs ELSE -((-d) \div TicksPerMs)

(* makeLogEntry: the type assertion key.(string) panics on any other key *)
makeLogEntry(op, key, value, ttl) ==
  IF key.typ # "string" THEN [panic |-> TRUE]
  ELSE [panic |-> FALSE, Op |-> op, Key |-> key.val, Value |-> value,
        TTLms |-> IF ttl # Nil THEN Milliseconds(Deref(ttl)) ELSE 0]

(* encoding/json: a value's JSON token.  Numbers lose their Go type *)
JSONToken(v) == IF v.typ \in {"int", "float64"} THEN [kind |-> "number", text |-> v.val] ELSE [kind |-> "string", text |-> v.val]

(* a JSON token decoded into an interface{}: every number is a float64 *)
JSONDecode(t) == IF t.kind = "number" THEN GoFloat64(t.text) ELSE GoString(t.text)

(* json.Marshal(LogEntry): omitempty drops a nil Value and a zero TTLms *)
Marshal(e) ==
  [json |-> TRUE, op |-> e.Op, key |-> e.Key,
   value |-> IF e.Value.typ = "nil" THEN Nil ELSE Ptr(JSONToken(e.Value)),
   ttl_ms |-> IF e.TTLms = 0 THEN Nil ELSE Ptr(e.TTLms)]

(* json.Unmarshal as it would be were LogEntry.Value tagged with a name    *)
(* other than "value": the field keeps its zero value                      *)
UnmarshalLosesValue(line) ==
  IF ~line.json THEN [err |-> TRUE]
  ELSE
  [err |-> FALSE, Op |-> line.op, Key |-> line.key,
   Value |-> NilIface,
   TTLms |-> IF line.ttl_ms = Nil THEN 0 ELSE Deref(line.ttl_ms)]

(* json.Unmarshal(line, &entry): absent fields keep their zero value *)
Unmarshal(line) ==
  IF ~line.json THEN [err |-> TRUE]
  ELSE
  [err |-> FALSE, Op |-> line.op, Key |-> line.key,
   Value |-> IF line.value = Nil THEN NilIface ELSE JSONDecode(Deref(line.value)),
   TTLms |-> IF line.ttl_ms = Nil THEN 0 ELSE Deref(line.ttl_ms)]

(* AppendToLog: the path defaults when empty; a failed open is only printed *)
AppendPath(c) == IF c.LogPath = "" THEN DefaultLogPath ELSE c.LogPath

(* AppendToLog as it would be with O_TRUNC for O_APPEND on line 186 *)
AppendToLogTruncates(fs, c, entry, openOK) ==
  IF ~openOK THEN fs
  ELSE MapStore(fs, AppendPath(c), <<Marshal(entry)>>)

(* AppendToLog as it would be without the return of line 189 *)
AppendToLogWritesAnyway(fs, c, entry, openOK) ==
  LET p == AppendPath(c)
      old == IF p \in DOMAIN fs THEN fs[p] ELSE <<>>
  IN  MapStore(fs, p, Append(old, Marshal(entry)))

AppendToLog(fs, c, entry, openOK) ==
  IF ~openOK THEN fs
  ELSE LET p == AppendPath(c)
           old == IF p \in DOMAIN fs THEN fs[p] ELSE <<>>
       IN  MapStore(fs, p, Append(old, Marshal(entry)))

AppendToLogKV(c) == [c EXCEPT !.LogPath = AppendPath(c)]

(* Get as it would be without line 60: an expired entry leaves the list    *)
(* and stays in the map                                                    *)
GetOpKeepsIndex(c, key, t) ==
  IF ValidateKey(key) # "ok" THEN [kv |-> c, value |-> NilIface, found |-> FALSE, path |-> "invalid"]
  ELSE IF key \in DOMAIN c.Cache
  THEN LET elem == c.Cache[key]
           ent == c.Value[elem]
       IN  IF ent.expiresAt # Nil /\ After(t, Deref(ent.expiresAt))
           THEN [kv |-> Collect([c EXCEPT !.LRU_deque = Remove(c.LRU_deque, elem)]),
                 value |-> NilIface, found |-> FALSE, path |-> "expired"]
           ELSE [kv |-> [c EXCEPT !.LRU_deque = MoveToFront(c.LRU_deque, elem)],
                 value |-> ent.value, found |-> TRUE, path |-> "hit"]
  ELSE [kv |-> c, value |-> NilIface, found |-> FALSE, path |-> "absent"]

(* Get as it would be without line 65: a hit leaves the order alone *)
GetOpNoMove(c, key, t) ==
  IF ValidateKey(key) # "ok" THEN [kv |-> c, value |-> NilIface, found |-> FALSE, path |-> "invalid"]
  ELSE IF key \in DOMAIN c.Cache
  THEN LET elem == c.Cache[key]
           ent == c.Value[elem]
       IN  IF ent.expiresAt # Nil /\ After(t, Deref(ent.expiresAt))
           THEN [kv |-> Collect([c EXCEPT !.Cache = MapDelete(c.Cache, ent.key),
                                          !.LRU_deque = Remove(c.LRU_deque, elem)]),
                 value |-> NilIface, found |-> FALSE, path |-> "expired"]
           ELSE [kv |-> c, value |-> ent.value, found |-> TRUE, path |-> "hit"]
  ELSE [kv |-> c, value |-> NilIface, found |-> FALSE, path |-> "absent"]

(* Get, lines 45-69: the cache after the call, the two results, and the    *)
(* branch the call took (path)                                             *)
GetOp(c, key, t) ==
  IF ValidateKey(key) # "ok" THEN [kv |-> c, value |-> NilIface, found |-> FALSE, path |-> "invalid"]
  ELSE IF key \in DOMAIN c.Cache
  THEN LET elem == c.Cache[key]
           ent == c.Value[elem]
       IN  IF ent.expiresAt # Nil /\ After(t, Deref(ent.expiresAt))
           THEN [kv |-> Collect([c EXCEPT !.Cache = MapDelete(c.Cache, ent.key),
                                          !.LRU_deque = Remove(c.LRU_deque, elem)]),
                 value |-> NilIface, found |-> FALSE, path |-> "expired"]
           ELSE [kv |-> [c EXCEPT !.LRU_deque = MoveToFront(c.LRU_deque, elem)],
                 value |-> ent.value, found |-> TRUE, path |-> "hit"]
  ELSE [kv |-> c, value |-> NilIface, found |-> FALSE, path |-> "absent"]

(* the eviction as it would be with > for >= on line 100 *)
EvictWhenOver(c) ==
  IF Len(c.LRU_deque) > c.Capacity
  THEN LET back == Back(c.LRU_deque)
       IN  IF back # Nil
           THEN LET evicted == c.Value[Deref(back)]
                IN  Collect([c EXCEPT !.Cache = MapDelete(c.Cache, evicted.key),
                                      !.LRU_deque = Remove(c.LRU_deque, Deref(back))])
           ELSE c
  ELSE c

(* the eviction as it would be if it took the front of the list *)
EvictFront(c) ==
  IF Len(c.LRU_deque) >= c.Capacity
  THEN IF Len(c.LRU_deque) > 0
       THEN LET evicted == c.Value[Head(c.LRU_deque)]
            IN  Collect([c EXCEPT !.Cache = MapDelete(c.Cache, evicted.key),
                                  !.LRU_deque = Tail(c.LRU_deque)])
       ELSE c
  ELSE c

(* the eviction as it would be were the list counted with the entry that  *)
(* is about to be pushed                                                   *)
EvictEarly(c) ==
  IF Len(c.LRU_deque) + 1 >= c.Capacity
  THEN LET back == Back(c.LRU_deque)
       IN  IF back # Nil
           THEN LET evicted == c.Value[Deref(back)]
                IN  Collect([c EXCEPT !.Cache = MapDelete(c.Cache, evicted.key),
                                      !.LRU_deque = Remove(c.LRU_deque, Deref(back))])
           ELSE c
  ELSE c

(* the eviction of Set, lines 99-109 *)
Evict(c) ==
  IF Len(c.LRU_deque) >= c.Capacity
  THEN LET back == Back(c.LRU_deque)
       IN  IF back # Nil
           THEN LET evicted == c.Value[Deref(back)]
                IN  Collect([c EXCEPT !.Cache = MapDelete(c.Cache, evicted.key),
                                      !.LRU_deque = Remove(c.LRU_deque, Deref(back))])
           ELSE c
  ELSE c

(* expiry of a Set at time t *)
Expiry(ttl, t) == IF ttl # Nil THEN Ptr(t + Deref(ttl)) ELSE Nil

(* Set as it would be without the else of lines 86-88: an update without  *)
(* ttl leaves the old expiry in place                                      *)
SetMemKeepsExpiry(c, key, value, ttl, t) ==
  IF ValidateKey(key) # "ok" THEN [kv |-> c, ok |-> FALSE, log |-> FALSE, path |-> "invalid"]
  ELSE IF key \in DOMAIN c.Cache
  THEN LET elem == c.Cache[key]
           old == c.Value[elem]
           ent == [old EXCEPT !.value = value, !.expiresAt = IF ttl # Nil THEN Expiry(ttl, t) ELSE old.expiresAt]
       IN  [kv |-> [c EXCEPT !.Value = MapStore(c.Value, elem, ent),
                             !.LRU_deque = MoveToFront(c.LRU_deque, elem)],
            ok |-> TRUE, log |-> c.Persistent, path |-> "update"]
  ELSE LET d == Evict(c)
           elem == NewElem(d)
           ent == [key |-> key, value |-> value, expiresAt |-> Expiry(ttl, t)]
       IN  [kv |-> [d EXCEPT !.LRU_deque = PushFront(d.LRU_deque, elem),
                             !.Value = MapStore(d.Value, elem, ent),
                             !.Cache = MapStore(d.Cache, key, elem)],
            ok |-> TRUE, log |-> c.Persistent,
            path |-> IF Len(d.LRU_deque) < Len(c.LRU_deque) THEN "evict" ELSE "insert"]

(* Set, lines 71-130, up to the log append: the cache in memory, whether   *)
(* the call reaches an append (log), the result it then returns, and the   *)
(* branch it took (path)                                                   *)
SetMem(c, key, value, ttl, t) ==
  IF ValidateKey(key) # "ok" THEN [kv |-> c, ok |-> FALSE, log |-> FALSE, path |-> "invalid"]
  ELSE IF key \in DOMAIN c.Cache
  THEN LET elem == c.Cache[key]
           ent == [c.Value[elem] EXCEPT !.value = value, !.expiresAt = Expiry(ttl, t)]
       IN  [kv |-> [c EXCEPT !.Value = MapStore(c.Value, elem, ent),
                             !.LRU_deque = MoveToFront(c.LRU_deque, elem)],
            ok |-> TRUE, log |-> c.Persistent, path |-> "update"]
  ELSE LET d == Evict(c)
           elem == NewElem(d)
           ent == [key |-> key, value |-> value, expiresAt |-> Expiry(ttl, t)]
       IN  [kv |-> [d EXCEPT !.LRU_deque = PushFront(d.LRU_deque, elem),
                             !.Value = MapStore(d.Value, elem, ent),
                             !.Cache = MapStore(d.Cache, key, elem)],
            ok |-> TRUE, log |-> c.Persistent,
            path |-> IF Len(d.LRU_deque) < Len(c.LRU_deque) THEN "evict" ELSE "insert"]

(* Delete as it would be with the append of lines 145-148 moved out of the *)
(* if: a DELETE record for every valid key, resident or not                *)
DeleteMemAlwaysLogs(c, key) ==
  IF ValidateKey(key) # "ok" THEN [kv |-> c, ok |-> FALSE, log |-> FALSE, path |-> "invalid"]
  ELSE IF key \in DOMAIN c.Cache
  THEN LET elem == c.Cache[key]
       IN  [kv |-> Collect([c EXCEPT !.LRU_deque = Remove(c.LRU_deque, elem),
                                     !.Cache = MapDelete(c.Cache, key)]),
            ok |-> TRUE, log |-> c.Persistent, path |-> "removed"]
  ELSE [kv |-> c, ok |-> FALSE, log |-> c.Persistent, path |-> "absent"]

(* Delete, lines 132-153, up to the log append *)
DeleteMem(c, key) ==
  IF ValidateKey(key) # "ok" THEN [kv |-> c, ok |-> FALSE, log |-> FALSE, path |-> "invalid"]
  ELSE IF key \in DOMAIN c.Cache
  THEN LET elem == c.Cache[key]
       IN  [kv |-> Collect([c EXCEPT !.LRU_deque = Remove(c.LRU_deque, elem),
                                     !.Cache = MapDelete(c.Cache, key)]),
            ok |-> TRUE, log |-> c.Persistent, path |-> "removed"]
  ELSE [kv |-> c, ok |-> FALSE, log |-> FALSE, path |-> "absent"]

(* Len, lines 155-160 *)
LenOp(c) == Cardinality(DOMAIN c.Cache)

(* a line that json.Unmarshal rejects, such as an empty or a cut-off line *)
Garbage == [json |-> FALSE]

(* a line longer than bufio.MaxScanTokenSize, the buffer of the Scanner of *)
(* line 210: Scan returns false there and Err returns ErrTooLong           *)
TooLong == [json |-> FALSE, long |-> TRUE]

IsTooLong(line) == "long" \in DOMAIN line

(* scanner.Err() of line 231: nil at the end of the file *)
ScanErr(lines) == \E n \in 1..Len(lines) : IsTooLong(lines[n])

(* ReplayLog's loop, lines 210-230, over the lines of the file: the cache  *)
(* has Persistent off, so its Set and Delete calls append nothing          *)
RECURSIVE ReplayLines(_, _, _)
ReplayLines(c, lines, t) ==
  IF lines = <<>> THEN c
  ELSE IF IsTooLong(Head(lines)) THEN c
  ELSE LET entry == Unmarshal(Head(lines))
           d == IF entry.err THEN c
                ELSE IF entry.Op = "SET"
                THEN SetMem(c, GoString(entry.Key), entry.Value, IF entry.TTLms > 0 THEN Ptr(entry.TTLms * TicksPerMs) ELSE Nil, t).kv
                ELSE IF entry.Op = "DELETE" THEN DeleteMem(c, GoString(entry.Key)).kv
                ELSE c
       IN  ReplayLines(d, Tail(lines), t)

(* the files after the same loop: a Set or Delete of the loop appends its  *)
(* record when it finds the cache persistent                               *)
RECURSIVE ReplayFiles(_, _, _, _)
ReplayFiles(fs, c, lines, t) ==
  IF lines = <<>> THEN fs
  ELSE IF IsTooLong(Head(lines)) THEN fs
  ELSE LET entry == Unmarshal(Head(lines))
           none == [kv |-> c, log |-> FALSE]
           r == IF entry.err THEN none
                ELSE IF entry.Op = "SET"
                THEN SetMem(c, GoString(entry.Key), entry.Value, IF entry.TTLms > 0 THEN Ptr(entry.TTLms * TicksPerMs) ELSE Nil, t)
                ELSE IF entry.Op = "DELETE" THEN DeleteMem(c, GoString(entry.Key))
                ELSE none
           rec == IF entry.err THEN Garbage
                  ELSE IF entry.Op = "SET"
                  THEN makeLogEntry("SET", GoString(entry.Key), entry.Value, IF entry.TTLms > 0 THEN Ptr(entry.TTLms * TicksPerMs) ELSE Nil)
                  ELSE makeLogEntry("DELETE", GoString(entry.Key), NilIface, Nil)
       IN  ReplayFiles(IF r.log THEN AppendToLog(fs, c, rec, TRUE) ELSE fs, r.kv, Tail(lines), t)

----------------------------------------------------------------------------
(* The state machine.  kv: the cache instances; files: the file system, a  *)
(* function from the paths that exist to their lines; now: the clock;      *)
(* ret: the last call, what it returned (ok is Get's found, ReplayLog's    *)
(* err = nil) and the branch it took; ctor: the constructor's arguments;   *)
(* touched: whether a Get has found its key in the index.                  *)

Result(op, key, value, ok, path) == [op |-> op, key |-> key, value |-> value, ok |-> ok, n |-> 0, panic |-> FALSE, path |-> path]

LogLen(i) == IF AppendPath(kv[i]) \in DOMAIN files THEN Len(files[AppendPath(kv[i])]) ELSE 0

(* a caller that is in no call *)
NoCall == [op |-> "", key |-> NilIface, value |-> NilIface, ttl |-> Nil, ok |-> FALSE, path |-> "", out |-> NilIface, panic |-> FALSE]

(* no ReplayLog in progress *)
NoReplay == [at |-> "idle", pos |-> 0, prevPersistent |-> FALSE]

(* a log left behind by an earlier persistent run: SET a "x"; SET b 1 with *)
(* a TTL of one millisecond; SET c "x"; DELETE a                           *)
OldLog ==
  << Marshal(makeLogEntry("SET", GoString("a"), GoString("x"), Nil)),
     Marshal(makeLogEntry("SET", GoString("b"), GoInt("1"), Ptr(TicksPerMs))),
     Marshal(makeLogEntry("SET", GoString("c"), GoString("x"), Nil)),
     Marshal(makeLogEntry("DELETE", GoString("a"), NilIface, Nil)) >>

NoFiles == [p \in {} |-> <<>>]

(* the state after construction: two caches built with the same arguments, *)
(* as in TestPersistentCache, at time 0, nothing called yet                *)
Constructed(persistent) ==
  /\ ctor \in [capacity : 0..MaxCapacity, persistent : {persistent}, logPath : LogPaths]
  /\ kv = [i \in Insts |-> NewOpenCache(ctor.capacity, ctor.persistent, ctor.logPath)]
  /\ now = 0
  /\ ret = Result("New", NilIface, NilIface, TRUE, "")
  /\ touched = FALSE
  /\ Mu = [i \in Insts |-> 0]
  /\ pc = [p \in Procs |-> "idle"]
  /\ call = [p \in Procs |-> NoCall]
  /\ applied = <<>>
  /\ replay = NoReplay

(* a cache without persistence, beside the log of an earlier run *)
Init ==
  /\ Constructed(FALSE)
  /\ files = [p \in {TestLogPath} |-> OldLog]

Get(i, key) ==
  LET r == GetOp(kv[i], key, now)
  IN  /\ Mu[i] = 0
      /\ kv' = [kv EXCEPT ![i] = r.kv]
      /\ ret' = Result("Get", key, r.value, r.found, r.path)
      /\ UNCHANGED <<files, now, ctor>>

(* the tail of Set and Delete, lines 91-96, 124-129, 145-149: the record   *)
(* is made and appended before the call returns                            *)
Persist(i, r, op, key, value, ttl, openOK) ==
  IF r.log
  THEN LET entry == makeLogEntry(op, key, value, ttl)
       IN  IF entry.panic
           THEN /\ kv' = [kv EXCEPT ![i] = r.kv]
                /\ ret' = [Result(op, key, value, FALSE, r.path) EXCEPT !.panic = TRUE]
                /\ UNCHANGED files
           ELSE /\ kv' = [kv EXCEPT ![i] = AppendToLogKV(r.kv)]
                /\ files' = AppendToLog(files, r.kv, entry, openOK)
                /\ ret' = Result(op, key, value, r.ok, r.path)
  ELSE /\ kv' = [kv EXCEPT ![i] = r.kv]
       /\ ret' = Result(op, key, value, r.ok, r.path)
       /\ UNCHANGED files

Set(i, key, value, ttl, openOK) ==
  /\ Mu[i] = 0
  /\ kv[i].Persistent => LogLen(i) < MaxLog
  /\ Persist(i, SetMem(kv[i], key, value, ttl, now), "SET", key, value, ttl, openOK)
  /\ UNCHANGED <<now, ctor>>

Delete(i, key, openOK) ==
  /\ Mu[i] = 0
  /\ kv[i].Persistent => LogLen(i) < MaxLog
  /\ Persist(i, DeleteMem(kv[i], key), "DELETE", key, NilIface, Nil, openOK)
  /\ UNCHANGED <<now, ctor>>

(* Len as it would be were it to count the entries that have not expired *)
LenCallCountsLive(i) ==
  /\ Mu[i] = 0
  /\ LET live == {k \in DOMAIN kv[i].Cache :
                    LET ent == kv[i].Value[kv[i].Cache[k]]
                    IN  ~(ent.expiresAt # Nil /\ After(now, Deref(ent.expiresAt)))}
     IN  ret' = [Result("Len", NilIface, NilIface, TRUE, "") EXCEPT !.n = Cardinality(live)]
  /\ UNCHANGED <<kv, files, now, ctor>>

LenCall(i) ==
  /\ Mu[i] = 0
  /\ ret' = [Result("Len", NilIface, NilIface, TRUE, "") EXCEPT !.n = LenOp(kv[i])]
  /\ UNCHANGED <<kv, files, now, ctor>>

(* ReplayLog as it would be were the TTL of a record counted from time 0   *)
(* and not from the time.Now() of the replayed Set                         *)
ReplayLogAtEpoch(i, filename) ==
  /\ Mu[i] = 0
  /\ IF filename \notin DOMAIN files
     THEN /\ ret' = Result("ReplayLog", GoString(filename), NilIface, FALSE, "open failed")
          /\ UNCHANGED <<kv, files, now, ctor>>
     ELSE LET prevPersistent == kv[i].Persistent
              off == [kv[i] EXCEPT !.Persistent = FALSE]
              c == ReplayLines(off, files[filename], 0)
          IN  /\ kv' = [kv EXCEPT ![i] = [c EXCEPT !.Persistent = prevPersistent]]
              /\ files' = ReplayFiles(files, off, files[filename], 0)
              /\ ret' = IF ScanErr(files[filename])
                        THEN Result("ReplayLog", GoString(filename), NilIface, FALSE, "scan error")
                        ELSE Result("ReplayLog", GoString(filename), NilIface, TRUE, "replayed")
              /\ UNCHANGED <<now, ctor>>

(* ReplayLog as it would be without line 207: the cache stays persistent   *)
(* while its log is replayed                                               *)
ReplayLogStaysPersistent(i, filename) ==
  /\ Mu[i] = 0
  /\ IF filename \notin DOMAIN files
     THEN /\ ret' = Result("ReplayLog", GoString(filename), NilIface, FALSE, "open failed")
          /\ UNCHANGED <<kv, files, now, ctor>>
     ELSE LET c == ReplayLines(kv[i], files[filename], now)
          IN  /\ kv' = [kv EXCEPT ![i] = c]
              /\ files' = ReplayFiles(files, kv[i], files[filename], now)
              /\ ret' = IF ScanErr(files[filename])
                        THEN Result("ReplayLog", GoString(filename), NilIface, FALSE, "scan error")
                        ELSE Result("ReplayLog", GoString(filename), NilIface, TRUE, "replayed")
              /\ UNCHANGED <<now, ctor>>

(* ReplayLog, lines 198-232, run by the only caller of the cache *)
ReplayLog(i, filename) ==
  /\ Mu[i] = 0
  /\ IF filename \notin DOMAIN files
     THEN /\ ret' = Result("ReplayLog", GoString(filename), NilIface, FALSE, "open failed")
          /\ UNCHANGED <<kv, files, now, ctor>>
     ELSE LET prevPersistent == kv[i].Persistent
              off == [kv[i] EXCEPT !.Persistent = FALSE]
              c == ReplayLines(off, files[filename], now)
          IN  /\ kv' = [kv EXCEPT ![i] = [c EXCEPT !.Persistent = prevPersistent]]
              /\ files' = ReplayFiles(files, off, files[filename], now)
              /\ ret' = IF ScanErr(files[filename])
                        THEN Result("ReplayLog", GoString(filename), NilIface, FALSE, "scan error")
                        ELSE Result("ReplayLog", GoString(filename), NilIface, TRUE, "replayed")
              /\ UNCHANGED <<now, ctor>>

(* the clock advances between calls *)
Tick ==
  /\ now < MaxTime
  /\ now' = now + 1
  /\ UNCHANGED <<kv, files, ret, ctor>>

Next ==
  \/ \E key \in StringKeys : Get("A", key) /\ UNCHANGED <<touched, conc>>
  \/ \E key \in StringKeys, value \in Values, ttl \in TTLs : Set("A", key, value, ttl, TRUE) /\ UNCHANGED <<touched, conc>>
  \/ \E key \in StringKeys : Delete("A", key, TRUE) /\ UNCHANGED <<touched, conc>>
  \/ LenCall("A") /\ UNCHANGED <<touched, conc>>
  \/ ReplayLog("A", TestLogPath) /\ UNCHANGED <<touched, conc>>
  \/ Tick /\ UNCHANGED <<touched, conc>>

Spec == Init /\ [][Next]_vars

----------------------------------------------------------------------------
(* A persistent cache A whose appends succeed, starting without a log      *)
(* file; at some point a fresh cache B of the same capacity replays A's    *)
(* log, which ends the run.  touched records that a Get on A found its key *)
(* in the index.                                                           *)

InitLog ==
  /\ Constructed(TRUE)
  /\ ctor.capacity >= 1
  /\ files = NoFiles

Replayed == ret.op = "ReplayLog"

(* the Set calls made on A: both value types, with and without a TTL, an   *)
(* update of a resident key, and a key the validator rejects               *)
LogSets ==
  { [key |-> GoString("a"), value |-> GoInt("1"), ttl |-> Nil],
    [key |-> GoString("a"), value |-> GoString("x"), ttl |-> Ptr(1)],
    [key |-> GoString("b"), value |-> GoString("x"), ttl |-> Nil],
    [key |-> GoString("c"), value |-> GoInt("1"), ttl |-> Ptr(1)],
    [key |-> NilIface, value |-> GoString("x"), ttl |-> Nil] }

NextLog ==
  \/ \E key \in StringKeys : ~Replayed /\ Get("A", key) /\ touched' = (touched \/ key \in DOMAIN kv["A"].Cache) /\ UNCHANGED conc
  \/ \E s \in LogSets : ~Replayed /\ Set("A", s.key, s.value, s.ttl, TRUE) /\ UNCHANGED <<touched, conc>>
  \/ \E key \in StringKeys : ~Replayed /\ Delete("A", key, TRUE) /\ UNCHANGED <<touched, conc>>
  \/ ~Replayed /\ LenCall("A") /\ UNCHANGED <<touched, conc>>
  \/ ~Replayed /\ ReplayLog("B", TestLogPath) /\ UNCHANGED <<touched, conc>>
  \/ ~Replayed /\ Tick /\ UNCHANGED <<touched, conc>>

SpecLog == InitLog /\ [][NextLog]_vars

----------------------------------------------------------------------------
(* Callers in parallel on the persistent cache A.  A call is four steps:   *)
(* it takes the mutex (Lock), works on the memory (Body), appends its      *)
(* record when it has one (AppendStep), and returns, the deferred Unlock   *)
(* releasing the mutex (Unlock).                                           *)

Call(op, key, value, ttl) == [NoCall EXCEPT !.op = op, !.key = key, !.value = value, !.ttl = ttl]

(* kv.Mu.Lock() with the test that the mutex is free left out *)
LockNoWait(p, c) ==
  /\ pc[p] = "idle"
  /\ Len(applied) < MaxLog
  /\ Mu' = [Mu EXCEPT !["A"] = p]
  /\ pc' = [pc EXCEPT ![p] = "locked"]
  /\ call' = [call EXCEPT ![p] = c]
  /\ UNCHANGED <<kv, files, now, ret, ctor, touched, applied, replay>>

(* kv.Mu.Lock(), lines 46, 72, 133: the caller goes on once the mutex is   *)
(* free                                                                    *)
Lock(p, c) ==
  /\ pc[p] = "idle"
  /\ Mu["A"] = 0
  /\ Len(applied) < MaxLog
  /\ Mu' = [Mu EXCEPT !["A"] = p]
  /\ pc' = [pc EXCEPT ![p] = "locked"]
  /\ call' = [call EXCEPT ![p] = c]
  /\ UNCHANGED <<kv, files, now, ret, ctor, touched, applied, replay>>

(* the call's work on the memory, up to its log append *)
Body(p) ==
  /\ pc[p] = "locked"
  /\ LET c == call[p]
         r == IF c.op = "Get" THEN GetOp(kv["A"], c.key, now)
              ELSE IF c.op = "SET" THEN SetMem(kv["A"], c.key, c.value, c.ttl, now)
              ELSE DeleteMem(kv["A"], c.key)
     IN  /\ kv' = [kv EXCEPT !["A"] = r.kv]
         /\ IF c.op = "Get"
            THEN /\ call' = [call EXCEPT ![p].ok = r.found, ![p].out = r.value, ![p].path = r.path]
                 /\ pc' = [pc EXCEPT ![p] = "unlock"]
                 /\ UNCHANGED applied
            ELSE /\ call' = [call EXCEPT ![p].ok = r.ok, ![p].path = r.path]
                 /\ pc' = [pc EXCEPT ![p] = IF r.log THEN "append" ELSE "unlock"]
                 /\ applied' = IF r.ok THEN Append(applied, [p |-> p, op |-> c.op, key |-> c.key, value |-> c.value]) ELSE applied
  /\ UNCHANGED <<files, now, ret, ctor, touched, Mu, replay>>

(* lines 93, 126, 147: the record is made, which panics on a key that is   *)
(* no string, and appended                                                 *)
AppendStep(p, openOK) ==
  /\ pc[p] = "append"
  /\ LET c == call[p]
         entry == makeLogEntry(c.op, c.key, c.value, c.ttl)
     IN  IF entry.panic
         THEN /\ call' = [call EXCEPT ![p].ok = FALSE, ![p].panic = TRUE]
              /\ UNCHANGED <<kv, files>>
         ELSE /\ files' = AppendToLog(files, kv["A"], entry, openOK)
              /\ kv' = [kv EXCEPT !["A"] = AppendToLogKV(kv["A"])]
              /\ UNCHANGED call
  /\ pc' = [pc EXCEPT ![p] = "unlock"]
  /\ UNCHANGED <<now, ret, ctor, touched, Mu, applied, replay>>

(* the return, and the deferred kv.Mu.Unlock() *)
Unlock(p) ==
  /\ pc[p] = "unlock"
  /\ LET c == call[p]
     IN  ret' = [Result(c.op, c.key, IF c.op = "Get" THEN c.out ELSE c.value, c.ok, c.path) EXCEPT !.panic = c.panic]
  /\ Mu' = [Mu EXCEPT !["A"] = 0]
  /\ pc' = [pc EXCEPT ![p] = "idle"]
  /\ call' = [call EXCEPT ![p] = NoCall]
  /\ UNCHANGED <<kv, files, now, ctor, touched, applied, replay>>

(* the Sets and Deletes the callers make *)
ConcCalls ==
  { Call("SET", GoString("a"), GoInt("1"), Nil),
    Call("SET", GoString("a"), GoString("x"), Nil),
    Call("SET", GoString("b"), GoString("x"), Ptr(1)),
    Call("SET", GoString("c"), GoInt("1"), Nil),
    Call("DELETE", GoString("a"), NilIface, Nil),
    Call("DELETE", GoString("b"), NilIface, Nil) }

InitConc ==
  /\ Constructed(TRUE)
  /\ ctor.capacity >= 1
  /\ files = NoFiles

NextConc ==
  \/ \E p \in Procs, c \in ConcCalls : Lock(p, c)
  \/ \E p \in Procs : Body(p)
  \/ \E p \in Procs : AppendStep(p, TRUE)
  \/ \E p \in Procs : Unlock(p)

SpecConc == InitConc /\ [][NextConc]_vars

----------------------------------------------------------------------------
(* TestConcurrentAccess: every caller p runs Set(key_p, val_p, nil) and    *)
(* then Get(key_p) on the shared cache A, the keys pairwise distinct.  pc  *)
(* is "idle" before the Set, "between" the two calls and "done" after the  *)
(* Get; call[p] of a caller that is done holds what its Get returned.      *)

ParKey(p) == GoString(<<"a", "b", "c", "d">>[p])

ParValue(p) == GoInt(<<"1", "2", "3", "4">>[p])

(* c.Set(key, val, nil) and c.Get(key) take the mutex, lines 72 and 46 *)
ParLock(p) ==
  /\ pc[p] \in {"idle", "between"}
  /\ Mu["A"] = 0
  /\ Mu' = [Mu EXCEPT !["A"] = p]
  /\ call' = [call EXCEPT ![p] = IF pc[p] = "idle" THEN Call("SET", ParKey(p), ParValue(p), Nil)
                                  ELSE Call("Get", ParKey(p), NilIface, Nil)]
  /\ pc' = [pc EXCEPT ![p] = "locked"]
  /\ UNCHANGED <<kv, files, now, ret, ctor, touched, applied, replay>>

(* the call returns and releases the mutex; the caller keeps what its Get  *)
(* returned                                                                *)
ParUnlock(p) ==
  /\ pc[p] = "unlock"
  /\ LET c == call[p]
     IN  /\ ret' = [Result(c.op, c.key, IF c.op = "Get" THEN c.out ELSE c.value, c.ok, c.path) EXCEPT !.panic = c.panic]
         /\ pc' = [pc EXCEPT ![p] = IF c.op = "Get" THEN "done" ELSE "between"]
         /\ call' = [call EXCEPT ![p] = IF c.op = "Get" THEN c ELSE NoCall]
  /\ Mu' = [Mu EXCEPT !["A"] = 0]
  /\ UNCHANGED <<kv, files, now, ctor, touched, applied, replay>>

InitPar ==
  /\ \E persistent \in BOOLEAN : Constructed(persistent)
  /\ files = NoFiles

NextPar ==
  \/ \E p \in Procs : ParLock(p)
  \/ \E p \in Procs : Body(p)
  \/ \E p \in Procs : AppendStep(p, TRUE)
  \/ \E p \in Procs : ParUnlock(p)
  \/ Tick /\ UNCHANGED <<touched, conc>>

SpecPar == InitPar /\ [][NextPar]_vars

----------------------------------------------------------------------------
(* The failure paths: one caller of a cache A, persistent or not, whose    *)
(* keys are strings, an int (a comparable type that is no string), nil and *)
(* a slice (not comparable), and whose appends may fail to open the file.  *)
(* A panic of Set or Delete unwinds through the deferred Unlock; the run   *)
(* goes on as under a caller that recovers.                                *)

RejectedKeys == {NilIface, Slice("s")}

ErrKeys == {GoString("a"), GoInt("7")} \cup RejectedKeys

(* the Set calls made: string keys with and without a TTL, the int key,    *)
(* and the two keys the validator rejects                                  *)
ErrSets ==
  { [key |-> GoString("a"), value |-> GoString("x"), ttl |-> Nil],
    [key |-> GoString("b"), value |-> GoInt("1"), ttl |-> Ptr(1)],
    [key |-> GoInt("7"), value |-> GoString("x"), ttl |-> Nil],
    [key |-> NilIface, value |-> GoString("x"), ttl |-> Nil],
    [key |-> Slice("s"), value |-> GoString("x"), ttl |-> Ptr(1)] }

InitErr ==
  /\ \E persistent \in BOOLEAN : Constructed(persistent)
  /\ files = NoFiles

NextErr ==
  \/ \E key \in ErrKeys : Get("A", key) /\ UNCHANGED <<touched, conc>>
  \/ \E s \in ErrSets, openOK \in BOOLEAN : Set("A", s.key, s.value, s.ttl, openOK) /\ UNCHANGED <<touched, conc>>
  \/ \E key \in ErrKeys, openOK \in BOOLEAN : Delete("A", key, openOK) /\ UNCHANGED <<touched, conc>>
  \/ LenCall("A") /\ UNCHANGED <<touched, conc>>

SpecErr == InitErr /\ [][NextErr]_vars

----------------------------------------------------------------------------
(* Replay of a file that was there before: its lines are records of SET    *)
(* and DELETE, a record of an op that is neither, lines that are no JSON,  *)
(* and lines too long for the Scanner.  The cache A, persistent (the file  *)
(* is then its own log) or not, is set some keys and replays the file, or  *)
(* a file that does not exist.                                             *)

MissingPath == "missing.aof"

LineKinds ==
  { Marshal(makeLogEntry("SET", GoString("a"), GoString("x"), Nil)),
    Marshal(makeLogEntry("SET", GoString("b"), GoInt("1"), Ptr(TicksPerMs))),
    Marshal(makeLogEntry("DELETE", GoString("a"), NilIface, Nil)),
    Marshal(makeLogEntry("NOP", GoString("b"), NilIface, Nil)),
    Garbage,
    TooLong }

OldLogs == UNION {[1..n -> LineKinds] : n \in 0..MaxLog}

ReplaySets ==
  { [key |-> GoString("c"), value |-> GoString("x"), ttl |-> Nil],
    [key |-> GoString("a"), value |-> GoInt("1"), ttl |-> Nil] }

InitReplay ==
  /\ \E persistent \in BOOLEAN : Constructed(persistent)
  /\ \E log \in OldLogs : files = [p \in {TestLogPath} |-> log]

NextReplay ==
  \/ \E s \in ReplaySets : Set("A", s.key, s.value, s.ttl, TRUE) /\ UNCHANGED <<touched, conc>>
  \/ \E filename \in {TestLogPath, MissingPath} : ReplayLog("A", filename) /\ UNCHANGED <<touched, conc>>

SpecReplay == InitReplay /\ [][NextReplay]_vars

----------------------------------------------------------------------------
(* TTLs through the log.  The persistent cache A is set keys with TTLs of  *)
(* every kind: none, zero, below a millisecond, a millisecond, negative.   *)
(* The caller sleeps a millisecond at a time.  B, built like A, replays    *)
(* A's log at some time; A is asked for the key with the millisecond TTL   *)
(* and B for every key.                                                    *)

TTLSets ==
  { [key |-> GoString("a"), value |-> GoString("x"), ttl |-> Nil],
    [key |-> GoString("a"), value |-> GoString("x"), ttl |-> Ptr(0)],
    [key |-> GoString("a"), value |-> GoString("x"), ttl |-> Ptr(1)],
    [key |-> GoString("a"), value |-> GoString("x"), ttl |-> Ptr(-TicksPerMs)],
    [key |-> GoString("b"), value |-> GoString("x"), ttl |-> Ptr(TicksPerMs)] }

TTLKeys == {s.key : s \in TTLSets}

(* time.Sleep(time.Millisecond) *)
Sleep ==
  /\ now < MaxSleeps * TicksPerMs
  /\ now' = now + TicksPerMs
  /\ UNCHANGED <<kv, files, ret, ctor>>

NextTTL ==
  \/ \E s \in TTLSets : Set("A", s.key, s.value, s.ttl, TRUE) /\ UNCHANGED <<touched, conc>>
  \/ Get("A", GoString("b")) /\ UNCHANGED <<touched, conc>>
  \/ \E key \in TTLKeys : Get("B", key) /\ UNCHANGED <<touched, conc>>
  \/ ReplayLog("B", TestLogPath) /\ UNCHANGED <<touched, conc>>
  \/ Sleep /\ UNCHANGED <<touched, conc>>

SpecTTL == InitLog /\ [][NextTTL]_vars

----------------------------------------------------------------------------
(* ReplayLog beside other callers.  ReplayLog itself never takes the       *)
(* mutex: it writes Persistent on lines 207 and 208 without it, and        *)
(* between two lines of the file the mutex is free, each record being      *)
(* applied by a call of Set or Delete that takes and releases it.  So the  *)
(* replay is three kinds of step: the open with the write of line 207      *)
(* (ReplayOpen), one line of the file (ReplayRecord), and the return with  *)
(* the deferred write of line 208 (ReplayReturn).  A Set or Delete of      *)
(* another caller reads Persistent in its Body step, before or after       *)
(* either write.                                                           *)

ReplayOpen(i, filename) ==
  /\ replay.at = "idle"
  /\ IF filename \notin DOMAIN files
     THEN /\ ret' = Result("ReplayLog", GoString(filename), NilIface, FALSE, "open failed")
          /\ replay' = [replay EXCEPT !.at = "done"]
          /\ UNCHANGED kv
     ELSE /\ kv' = [kv EXCEPT ![i].Persistent = FALSE]
          /\ replay' = [at |-> "scan", pos |-> 1, prevPersistent |-> kv[i].Persistent]
          /\ UNCHANGED ret
  /\ UNCHANGED <<files, now, ctor, touched, Mu, pc, call, applied>>

(* one turn of the loop of lines 211-230: a line that is no record is      *)
(* skipped, a record is applied by kv.Set or kv.Delete under the mutex     *)
ReplayRecord(i, filename) ==
  /\ replay.at = "scan"
  /\ replay.pos <= Len(files[filename])
  /\ LET line == files[filename][replay.pos]
     IN  /\ ~IsTooLong(line)
         /\ Mu[i] = 0 \/ Unmarshal(line).err
         /\ kv' = [kv EXCEPT ![i] = ReplayLines(kv[i], <<line>>, now)]
         /\ files' = ReplayFiles(files, kv[i], <<line>>, now)
  /\ replay' = [replay EXCEPT !.pos = @ + 1]
  /\ UNCHANGED <<now, ret, ctor, touched, Mu, pc, call, applied>>

(* the end of the file, or a line the Scanner cannot hold: line 231 and    *)
(* the deferred kv.Persistent = prevPersistent                             *)
ReplayReturn(i, filename) ==
  /\ replay.at = "scan"
  /\ LET lines == files[filename]
         tooLong == replay.pos <= Len(lines) /\ IsTooLong(lines[replay.pos])
     IN  /\ replay.pos > Len(lines) \/ tooLong
         /\ ret' = IF tooLong
                   THEN Result("ReplayLog", GoString(filename), NilIface, FALSE, "scan error")
                   ELSE Result("ReplayLog", GoString(filename), NilIface, TRUE, "replayed")
  /\ kv' = [kv EXCEPT ![i].Persistent = replay.prevPersistent]
  /\ replay' = [replay EXCEPT !.at = "done"]
  /\ UNCHANGED <<files, now, ctor, touched, Mu, pc, call, applied>>

(* the log the persistent cache wrote in an earlier run *)
OwnLog ==
  << Marshal(makeLogEntry("SET", GoString("a"), GoString("x"), Nil)),
     Marshal(makeLogEntry("SET", GoString("b"), GoInt("1"), Nil)) >>

(* the calls of the other callers *)
RaceCalls ==
  { Call("SET", GoString("c"), GoInt("1"), Nil),
    Call("DELETE", GoString("a"), NilIface, Nil) }

InitRace ==
  /\ Constructed(TRUE)
  /\ ctor.capacity >= 1
  /\ files = [p \in {TestLogPath} |-> OwnLog]

NextRace ==
  \/ ReplayOpen("A", TestLogPath)
  \/ ReplayRecord("A", TestLogPath)
  \/ ReplayReturn("A", TestLogPath)
  \/ \E p \in Procs, c \in RaceCalls : Lock(p, c)
  \/ \E p \in Procs : Body(p)
  \/ \E p \in Procs : AppendStep(p, TRUE)
  \/ \E p \in Procs : Unlock(p)

SpecRace == InitRace /\ [][NextRace]_vars

----------------------------------------------------------------------------
(* Properties *)

A == kv["A"]

B == kv["B"]

(* the keys front to back *)
KeyOrder(c) == [p \in 1..Len(c.LRU_deque) |-> c.Value[c.LRU_deque[p]].key]

Resident(c) == DOMAIN c.Cache

(* the entry of a resident key *)
EntryOf(c, key) == c.Value[c.Cache[key]]

EffectiveCapacity == IF ctor.capacity >= 1 THEN ctor.capacity ELSE 1

(* C1: every cache holds at most max(capacity, 1) entries, capacity being  *)
(* the constructor's argument: the list is no longer than that and Len()   *)
(* is no more than that, whatever Get, Set, Delete, Len and ReplayLog      *)
(* calls were made.                                                        *)
C1_LenWithinCapacity ==
  \A i \in Insts :
    /\ kv[i].Capacity = EffectiveCapacity
    /\ Len(kv[i].LRU_deque) <= EffectiveCapacity
    /\ LenOp(kv[i]) <= EffectiveCapacity

(* a cache built with capacity 0 is full with one entry after a Set that evicted *)
C1_Witness ==
  /\ ctor.capacity = 0
  /\ ret.op = "SET" /\ ret.path = "evict"
  /\ Len(A.LRU_deque) = 1

(* C2: the map and the list hold the same entries: every key of the map    *)
(* points to an element of the list whose entry has that key, every        *)
(* element of the list is the one the map has for its key, no element and  *)
(* no key occurs twice in the list, and the sizes agree.                   *)
Consistent(c) ==
  /\ \A k \in DOMAIN c.Cache : InList(c.LRU_deque, c.Cache[k]) /\ c.Value[c.Cache[k]].key = k
  /\ \A p \in 1..Len(c.LRU_deque) :
       LET e == c.LRU_deque[p]
       IN  c.Value[e].key \in DOMAIN c.Cache /\ c.Cache[c.Value[e].key] = e
  /\ \A p, q \in 1..Len(c.LRU_deque) :
       p # q => c.LRU_deque[p] # c.LRU_deque[q] /\ c.Value[c.LRU_deque[p]].key # c.Value[c.LRU_deque[q]].key
  /\ Cardinality(DOMAIN c.Cache) = Len(c.LRU_deque)

C2_IndexMatchesList == \A i \in Insts : Consistent(kv[i])

(* a Get has just removed an expired entry and another entry remains *)
C2_Witness ==
  /\ ret.op = "Get" /\ ret.path = "expired"
  /\ ret.key \notin Resident(A)
  /\ Len(A.LRU_deque) = 1

(* the list without its last element *)
Front(l) == SubSeq(l, 1, Len(l) - 1)

(* the entries of the keys in S are the same before and after the step *)
SameEntries(c, d, S) == \A k \in S : k \in Resident(d) /\ EntryOf(d, k) = EntryOf(c, k)

(* Set called for each key of a sequence in turn, at time 0, without TTL *)
RECURSIVE SetAll(_, _)
SetAll(c, keys) == IF keys = <<>> THEN c ELSE SetAll(SetMem(c, Head(keys), GoString("x"), Nil, 0).kv, Tail(keys))

(* expired at the current time, were a Get to look *)
Expired(ent) == ent.expiresAt # Nil /\ now > Deref(ent.expiresAt)

(* C3: a Set of a key that is not resident, on a cache holding Capacity    *)
(* entries, removes exactly the entry at the back of the list, expired or  *)
(* not, and puts the new key in front of the others, which keep their      *)
(* order and entries.  On a fresh cache of capacity C, C+1 Sets of         *)
(* distinct keys leave the last C keys and not the first.                  *)
C3_SetEvictsBack ==
  /\ \A cap \in 1..2 :
       LET keys == SubSeq(<<GoString("a"), GoString("b"), GoString("c")>>, 1, cap + 1)
       IN  KeyOrder(SetAll(NewOpenCache(cap, FALSE, ""), keys)) = [p \in 1..cap |-> keys[cap + 2 - p]]
  /\ [][\A key \in StringKeys, value \in Values, ttl \in TTLs :
         (Set("A", key, value, ttl, TRUE) /\ key \notin Resident(A) /\ Len(A.LRU_deque) = A.Capacity)
           => /\ KeyOrder(kv'["A"]) = <<key>> \o Front(KeyOrder(A))
              /\ SameEntries(A, kv'["A"], Resident(A) \ {KeyOrder(A)[Len(A.LRU_deque)]})]_vars

(* a Set has just evicted from a cache of capacity 2, and the entry it     *)
(* kept, used more recently than the evicted one, is expired               *)
C3_Witness ==
  /\ ret.op = "SET" /\ ret.path = "evict"
  /\ A.Capacity = 2 /\ Len(A.LRU_deque) = 2
  /\ KeyOrder(A)[1] = ret.key
  /\ Expired(EntryOf(A, KeyOrder(A)[2]))

(* a sequence without the occurrences of x *)
Without(l, x) == SelectSeq(l, LAMBDA y : y # x)

(* the log of A as the calls it records: op and key *)
LogOps == IF TestLogPath \in DOMAIN files THEN [p \in 1..Len(files[TestLogPath]) |-> <<files[TestLogPath][p].op, files[TestLogPath][p].key>>] ELSE <<>>

(* C4: a Get that finds its key, resident and not expired, returns found   *)
(* and moves the key to the front, the other keys keeping their order; and *)
(* a Set removes from the cache no key other than the one at the back of   *)
(* the list, so the key is evicted only once every other resident key has  *)
(* moved in front of it.  Capacity 2: Set(a), Set(b), Get(a), Set(c)       *)
(* leaves a and c and not b.                                               *)
C4_GetProtects ==
  /\ LET c2 == SetAll(NewOpenCache(2, FALSE, ""), <<GoString("a"), GoString("b")>>)
         c3 == GetOp(c2, GoString("a"), 0).kv
         c4 == SetAll(c3, <<GoString("c")>>)
     IN  Resident(c4) = {GoString("a"), GoString("c")}
  /\ [][/\ \A key \in StringKeys :
            (Get("A", key) /\ key \in Resident(A) /\ ~Expired(EntryOf(A, key)))
              => /\ ret'.ok /\ ret'.value = EntryOf(A, key).value
                 /\ KeyOrder(kv'["A"]) = <<key>> \o Without(KeyOrder(A), key)
        /\ \A s \in LogSets :
            Set("A", s.key, s.value, s.ttl, TRUE)
              => \A k \in Resident(A) \ Resident(kv'["A"]) : k = KeyOrder(A)[Len(A.LRU_deque)]]_vars

(* capacity 2, the log says SET a, SET b, SET c and nothing else, and the  *)
(* last Set evicted b and not a: a Get of a came in between                *)
C4_Witness ==
  /\ A.Capacity = 2
  /\ LogOps = << <<"SET", "a">>, <<"SET", "b">>, <<"SET", "c">> >>
  /\ ret.op = "SET" /\ ret.path = "evict"
  /\ KeyOrder(A) = <<GoString("c"), GoString("a")>>

(* C5: a Set with ttl T at time t stores the value with expiry t + T (no   *)
(* expiry without ttl); the entry then stays as it is while the key is     *)
(* resident and no Set or replay touches it; a Get of the key before its   *)
(* expiry returns the value and found; a Get after its expiry returns not  *)
(* found and removes the key from the map and the list, so Len() drops by  *)
(* one; and a Get of a key that is not resident returns not found.         *)
C5_TTLLaw ==
  [][/\ \A key \in StringKeys, value \in Values, ttl \in TTLs :
          Set("A", key, value, ttl, TRUE)
            => /\ key \in Resident(kv'["A"])
               /\ EntryOf(kv'["A"], key).value = value
               /\ EntryOf(kv'["A"], key).expiresAt = (IF ttl = Nil THEN Nil ELSE <<now + ttl[1]>>)
     /\ \A k \in Resident(A) \cap Resident(kv'["A"]) :
          EntryOf(kv'["A"], k) # EntryOf(A, k) => (ret'.op = "SET" /\ ret'.key = k) \/ ret'.op = "ReplayLog"
     /\ \A key \in StringKeys :
          Get("A", key)
            => IF key \notin Resident(A)
               THEN ~ret'.ok /\ kv' = kv
               ELSE LET ent == EntryOf(A, key)
                    IN  /\ (ent.expiresAt = Nil \/ now < ent.expiresAt[1])
                              => ret'.ok /\ ret'.value = ent.value /\ Resident(kv'["A"]) = Resident(A)
                        /\ (ent.expiresAt # Nil /\ now > ent.expiresAt[1])
                              => /\ ~ret'.ok
                                 /\ Resident(kv'["A"]) = Resident(A) \ {key}
                                 /\ KeyOrder(kv'["A"]) = Without(KeyOrder(A), key)
                                 /\ LenOp(kv'["A"]) = LenOp(A) - 1]_vars

(* a Get after the expiry has just removed the last entry of the cache *)
C5_Witness ==
  /\ ret.op = "Get" /\ ret.path = "expired" /\ ~ret.ok
  /\ LenOp(A) = 0 /\ A.LRU_deque = <<>>

(* C6: Delete of a resident key returns true and removes the key from the  *)
(* map and the list, the other entries staying as they are; from then on   *)
(* the key is not resident, and a Get of it not found, until a Set of that *)
(* key.  Delete of a key that is not resident returns false and changes    *)
(* neither the cache nor the log.                                          *)
C6_Delete ==
  [][/\ \A key \in StringKeys :
          Delete("A", key, TRUE)
            => IF key \in Resident(A)
               THEN /\ ret'.ok
                    /\ Resident(kv'["A"]) = Resident(A) \ {key}
                    /\ KeyOrder(kv'["A"]) = Without(KeyOrder(A), key)
                    /\ SameEntries(A, kv'["A"], Resident(A) \ {key})
               ELSE ~ret'.ok /\ kv' = kv /\ files' = files
     /\ \A key \in StringKeys :
          (Get("A", key) /\ key \notin Resident(A)) => ~ret'.ok /\ key \notin Resident(kv'["A"])
     /\ \A k \in Resident(kv'["A"]) \ Resident(A) : ret'.op = "SET" /\ ret'.key = k]_vars

(* a persistent cache with one entry and one record has just been asked to *)
(* delete a key it does not hold                                           *)
C6_Witness ==
  /\ ret.op = "DELETE" /\ ret.path = "absent" /\ ~ret.ok
  /\ A.Persistent
  /\ Len(LogOps) = 1 /\ LenOp(A) = 1

(* C7: a Set of a key that is already resident returns true and evicts     *)
(* nothing: the resident keys and Len() stay, the key's value becomes the  *)
(* new one, its expiry becomes now + ttl with a ttl and none without, the  *)
(* key moves to the front and the other keys keep their order and entries, *)
(* also when the cache is full.  Capacity 1: Set(k, 10), Set(k, 20) gives  *)
(* Get(k) = 20 and Len() = 1.                                              *)
C7_SetUpdates ==
  /\ LET c1 == SetMem(NewOpenCache(1, FALSE, ""), GoString("a"), GoInt("1"), Nil, 0).kv
         c2 == SetMem(c1, GoString("a"), GoString("x"), Nil, 0).kv
     IN  GetOp(c2, GoString("a"), 0).value = GoString("x") /\ GetOp(c2, GoString("a"), 0).found /\ LenOp(c2) = 1
  /\ [][\A key \in StringKeys, value \in Values, ttl \in TTLs :
         (Set("A", key, value, ttl, TRUE) /\ key \in Resident(A))
           => /\ ret'.ok
              /\ Resident(kv'["A"]) = Resident(A)
              /\ LenOp(kv'["A"]) = LenOp(A)
              /\ EntryOf(kv'["A"], key) = [key |-> key, value |-> value, expiresAt |-> IF ttl = Nil THEN Nil ELSE <<now + ttl[1]>>]
              /\ KeyOrder(kv'["A"]) = <<key>> \o Without(KeyOrder(A), key)
              /\ SameEntries(A, kv'["A"], Resident(A) \ {key})]_vars

(* a full cache of capacity 2 has just had the key at its back set again,  *)
(* without ttl, after the time a ttl of this model could have run out      *)
C7_Witness ==
  /\ ret.op = "SET" /\ ret.path = "update" /\ ret.ok
  /\ A.Capacity = 2 /\ LenOp(A) = 2
  /\ KeyOrder(A)[1] = ret.key
  /\ EntryOf(A, ret.key).expiresAt = Nil
  /\ now = 2

(* the lines of A's log *)
LogLines(fs) == IF TestLogPath \in DOMAIN fs THEN fs[TestLogPath] ELSE <<>>

(* the JSON text of the two values of this model *)
TextOf(value) == IF value = GoInt("1") THEN [kind |-> "number", text |-> "1"] ELSE [kind |-> "string", text |-> "x"]

(* C8: on a persistent cache whose appends succeed the log grows by one    *)
(* record, at its end, in a Set that returns true (op SET, the call's key  *)
(* and value, also when the Set evicts) and in a Delete that returns true  *)
(* (op DELETE, the call's key), and stays as it is in every other step: a  *)
(* Get (also one that removes an expired entry), a Len, a Set or Delete    *)
(* that returns false.                                                     *)
C8_LogFidelity ==
  [][/\ \A s \in LogSets :
          Set("A", s.key, s.value, s.ttl, TRUE)
            => IF ret'.ok
               THEN /\ Len(LogLines(files')) = Len(LogLines(files)) + 1
                    /\ Front(LogLines(files')) = LogLines(files)
                    /\ LET line == LogLines(files')[Len(LogLines(files'))]
                       IN  line.op = "SET" /\ line.key = s.key.val /\ line.value = <<TextOf(s.value)>>
               ELSE files' = files
     /\ \A key \in StringKeys :
          Delete("A", key, TRUE)
            => IF ret'.ok
               THEN /\ Len(LogLines(files')) = Len(LogLines(files)) + 1
                    /\ Front(LogLines(files')) = LogLines(files)
                    /\ LET line == LogLines(files')[Len(LogLines(files'))]
                       IN  line.op = "DELETE" /\ line.key = key.val /\ line.value = Nil
               ELSE files' = files
     /\ (\E key \in StringKeys : Get("A", key)) => files' = files
     /\ LenCall("A") => files' = files
     /\ files' # files => ret'.op \in {"SET", "DELETE"} /\ ret'.ok]_vars

(* capacity 1: the second Set evicted the first key, and the log holds the *)
(* two SET records and no record of the eviction                           *)
C8_Witness ==
  /\ A.Persistent /\ A.Capacity = 1
  /\ ret.op = "SET" /\ ret.path = "evict" /\ ret.ok
  /\ LogOps = << <<"SET", "a">>, <<"SET", "b">> >>

(* the log line that records a Set or Delete that took effect *)
Records(line, a) ==
  /\ line.op = a.op
  /\ line.key = a.key.val
  /\ line.value = (IF a.op = "DELETE" THEN Nil ELSE <<TextOf(a.value)>>)

(* C9: with callers in parallel, at most one caller is inside a call, the  *)
(* records of the log are the Sets and Deletes that have changed the       *)
(* memory, in that order, the only one missing being that of the caller    *)
(* about to append; and when no caller is in a call, applying the log in   *)
(* order to a fresh cache of the same capacity gives the keys of A in A's  *)
(* order.                                                                  *)
C9_LogOrderIsMemoryOrder ==
  LET log == LogLines(files)
  IN  /\ Cardinality({p \in Procs : pc[p] # "idle"}) <= 1
      /\ Len(log) <= Len(applied)
      /\ \A n \in 1..Len(log) : Records(log[n], applied[n])
      /\ Len(applied) - Len(log) = Cardinality({p \in Procs : pc[p] = "append"})
      /\ (\A p \in Procs : pc[p] = "idle")
           => KeyOrder(ReplayLines(NewOpenCache(ctor.capacity, FALSE, ""), log, now)) = KeyOrder(A)

(* caller 2's Set is in the log, caller 1's Set has evicted its key from   *)
(* the memory and is about to be appended                                  *)
C9_Witness ==
  /\ Len(applied) = 2 /\ applied[1].p = 2 /\ applied[2].p = 1
  /\ Len(LogLines(files)) = 1
  /\ pc[1] = "append" /\ Mu["A"] = 1
  /\ call[1].path = "evict"

(* no TTL given to a Set of this model has run out: the shortest is one    *)
(* tick and the earliest Set is at time 0                                  *)
BeforeAnyExpiry == \A d \in TTLs \ {Nil} : ~After(now, Deref(Expiry(d, 0)))

(* a value after json.Marshal and json.Unmarshal into an interface{} *)
RoundTrip(value) == JSONDecode(JSONToken(value))

(* C10 as stated: after Get, Set and Delete calls on the persistent cache  *)
(* A, a fresh cache B of the same capacity that has replayed A's log,      *)
(* before any TTL has run out, holds the keys of A with the values of A.   *)
C10_ReplayEqualsOriginal ==
  (Replayed /\ ret.ok /\ BeforeAnyExpiry)
    => /\ Resident(B) = Resident(A)
       /\ \A key \in Resident(A) \cap Resident(B) : EntryOf(B, key).value = EntryOf(A, key).value

(* C10: after Set, Delete and Len calls, and Gets none of which found its  *)
(* key in the index, on the persistent cache A whose log did not exist     *)
(* before, a fresh cache B of the same capacity that has replayed A's log  *)
(* holds the keys of A's index in A's order, each with A's value after a   *)
(* JSON round trip: a string is the same string, a number is a float64.    *)
C10_ReplayWithoutGets ==
  (Replayed /\ ret.ok /\ ~touched)
    => /\ KeyOrder(B) = KeyOrder(A)
       /\ Resident(B) = Resident(A)
       /\ \A key \in Resident(A) : EntryOf(B, key).value = RoundTrip(EntryOf(A, key).value)

(* B has replayed a log of three SET records into a capacity of two: the   *)
(* first key is evicted in both caches, and B holds an int of A as float64 *)
C10_Witness ==
  /\ Replayed /\ ret.ok /\ ~touched
  /\ Len(LogLines(files)) = 3
  /\ \A n \in 1..3 : LogLines(files)[n].op = "SET"
  /\ Cardinality(Resident(B)) = 2
  /\ LogLines(files)[1].key \notin {k.val : k \in Resident(B)}
  /\ \E key \in Resident(A) : EntryOf(A, key).value = GoInt("1") /\ EntryOf(B, key).value = GoFloat64("1")

(* what caller p's Get returned *)
GotOwn(p) == call[p].op = "Get" /\ call[p].ok /\ call[p].out = ParValue(p)

(* C11 as stated: whatever the capacity, the Get of every caller returns   *)
(* the value the caller has set, and true.                                 *)
C11_EveryGetFindsOwn ==
  \A p \in Procs : pc[p] = "done" => GotOwn(p)

(* C11: when there are no more callers than the cache has capacity, the    *)
(* Get of every caller returns the value the caller has set, and true, in  *)
(* every interleaving of the callers' Sets and Gets.                       *)
C11_GetFindsOwnWithinCapacity ==
  NProcs <= EffectiveCapacity => \A p \in Procs : pc[p] = "done" => GotOwn(p)

(* both callers have set before either got, the cache has room for both    *)
(* keys, and both Gets have returned the caller's own value                *)
C11_Witness ==
  /\ NProcs <= EffectiveCapacity
  /\ \A p \in Procs : pc[p] = "done" /\ GotOwn(p)
  /\ Len(applied) = NProcs
  /\ KeyOrder(A)[1] = ParKey(1)
  /\ ret.op = "Get" /\ ret.key = ParKey(1)
  /\ applied[1].p = 1

(* C12: with a key the validator rejects (nil, or of a type that is not    *)
(* comparable) Get returns (nil, false), Set returns false and Delete      *)
(* returns false, none of them panics, and the step changes neither the    *)
(* cache (index, list, entries with their values and expiries, flags) nor  *)
(* the files.                                                              *)
C12_RejectedKeyIsNoOp ==
  [][/\ \A key \in RejectedKeys :
          Get("A", key) => ~ret'.ok /\ ret'.value = NilIface /\ ~ret'.panic /\ kv' = kv /\ files' = files
     /\ \A s \in ErrSets, openOK \in BOOLEAN :
          (s.key \in RejectedKeys /\ Set("A", s.key, s.value, s.ttl, openOK))
            => ~ret'.ok /\ ~ret'.panic /\ kv' = kv /\ files' = files
     /\ \A key \in RejectedKeys, openOK \in BOOLEAN :
          Delete("A", key, openOK) => ~ret'.ok /\ ~ret'.panic /\ kv' = kv /\ files' = files]_vars

(* a persistent cache holding an entry with an expiry, its record in the   *)
(* log, has just refused a Set whose key is a slice                        *)
C12_Witness ==
  /\ ret.op = "SET" /\ ret.key = Slice("s") /\ ~ret.ok
  /\ A.Persistent
  /\ KeyOrder(A) = <<GoString("b")>> /\ EntryOf(A, GoString("b")).expiresAt # Nil
  /\ Len(LogLines(files)) = 1

(* C13 as stated: a Set with a key the validator accepts, and a Delete of  *)
(* a resident key the validator accepts, returns true and does not panic,  *)
(* on every cache, persistent or not.                                      *)
C13_AcceptedKeySucceeds ==
  (/\ ret.op \in {"SET", "DELETE"}
   /\ ValidateKey(ret.key) = "ok"
   /\ ret.op = "DELETE" => ret.path = "removed")
    => ret.ok /\ ~ret.panic

(* the cache without the fields that say where and whether it logs *)
Memory(c) == [Cache |-> c.Cache, LRU_deque |-> c.LRU_deque, Value |-> c.Value, Capacity |-> c.Capacity]

(* the last line of the log *)
LastLine(fs) == LogLines(fs)[Len(LogLines(fs))]

(* C14: on a persistent cache, a Set of a string key, or a Delete of a     *)
(* resident string key, whose append cannot open the file returns true,    *)
(* leaves the memory as the same call leaves it on a cache without         *)
(* persistence, leaves the files as they are and the cache persistent; and *)
(* whatever appends have failed before, a Set or Delete whose append can   *)
(* open the file adds its record to the log.                               *)
C14_AppendFailureSwallowed ==
  [][/\ \A s \in ErrSets :
          (A.Persistent /\ s.key.typ = "string" /\ Set("A", s.key, s.value, s.ttl, FALSE))
            => /\ ret'.ok /\ ~ret'.panic
               /\ files' = files
               /\ Memory(kv'["A"]) = Memory(SetMem([A EXCEPT !.Persistent = FALSE], s.key, s.value, s.ttl, now).kv)
               /\ kv'["A"].Persistent
     /\ \A key \in ErrKeys :
          (A.Persistent /\ key.typ = "string" /\ key \in Resident(A) /\ Delete("A", key, FALSE))
            => /\ ret'.ok /\ ~ret'.panic
               /\ files' = files
               /\ Memory(kv'["A"]) = Memory(DeleteMem([A EXCEPT !.Persistent = FALSE], key).kv)
               /\ kv'["A"].Persistent
     /\ \A s \in ErrSets :
          (A.Persistent /\ s.key.typ = "string" /\ Set("A", s.key, s.value, s.ttl, TRUE))
            => /\ Len(LogLines(files')) = Len(LogLines(files)) + 1
               /\ LastLine(files').op = "SET" /\ LastLine(files').key = s.key.val
     /\ \A key \in ErrKeys :
          (A.Persistent /\ key.typ = "string" /\ key \in Resident(A) /\ Delete("A", key, TRUE))
            => /\ Len(LogLines(files')) = Len(LogLines(files)) + 1
               /\ LastLine(files').op = "DELETE" /\ LastLine(files').key = key.val]_vars

(* the append of Set a failed and the append of the later Set b succeeded: *)
(* the memory holds both keys and the log the record of b alone            *)
C14_Witness ==
  /\ A.Persistent
  /\ ret.op = "SET" /\ ret.ok /\ ret.key = GoString("b")
  /\ KeyOrder(A) = <<GoString("b"), GoString("a")>>
  /\ Len(LogLines(files)) = 1 /\ LastLine(files).key = "b"

(* C15: ReplayLog leaves every file as it is, also when the cache is       *)
(* persistent and the file its own log, and leaves Persistent as it was    *)
(* at the call, whether the file cannot be opened, the scan ends in an     *)
(* error or at the end of the file; when the file cannot be opened it      *)
(* returns an error and the cache is as before.                            *)
C15_ReplayLogFrame ==
  [][\A filename \in {TestLogPath, MissingPath} :
       ReplayLog("A", filename)
         => /\ files' = files
            /\ kv'["A"].Persistent = A.Persistent
            /\ ret'.op = "ReplayLog"
            /\ filename \notin DOMAIN files => ~ret'.ok /\ kv' = kv]_vars

(* a persistent cache has replayed its own log, to which its Set of c had  *)
(* added a record, and the log still has its two lines                     *)
C15_Witness ==
  /\ ret.op = "ReplayLog" /\ ret.ok
  /\ A.Persistent
  /\ Len(LogLines(files)) = 2
  /\ LastLine(files) = Marshal(makeLogEntry("SET", GoString("c"), GoString("x"), Nil))
  /\ GoString("c") \in Resident(A)

(* a line that does not parse as a LogEntry *)
Malformed(line) == Unmarshal(line).err

(* the log without its malformed lines *)
WellFormed(lines) == SelectSeq(lines, LAMBDA line : ~Malformed(line))

(* C16 as stated: whatever lines that do not parse stand between the       *)
(* records of the file, ReplayLog returns no error and leaves the cache as *)
(* the replay of the records alone would leave it.                         *)
C16_ReplaySkipsMalformed ==
  [][ReplayLog("A", TestLogPath)
       => /\ ret'.ok
          /\ Memory(kv'["A"]) = Memory(ReplayLines(A, WellFormed(files[TestLogPath]), now))]_vars

(* the keys that the SET records of a file set *)
SetKeys(lines) ==
  {GoString(Unmarshal(lines[n]).Key) : n \in {m \in 1..Len(lines) : ~Malformed(lines[m]) /\ Unmarshal(lines[m]).Op = "SET"}}

(* C17 as stated: after a ReplayLog that returns nil, a key that was       *)
(* resident before the call and that no SET record of the file sets is no  *)
(* longer resident.                                                        *)
C17_ReplayResets ==
  [][(ReplayLog("A", TestLogPath) /\ ret'.ok)
       => \A key \in Resident(A) \ SetKeys(files[TestLogPath]) : key \notin Resident(kv'["A"])]_vars

(* the key at the back of the list *)
BackKey(c) == KeyOrder(c)[Len(c.LRU_deque)]

(* C18: an entry whose expiry has passed is in the index and in the list,  *)
(* and Len() counts it.  It leaves the cache only in a Get or a Delete of  *)
(* its key, in a Set of a new key that finds it at the back of the full    *)
(* list, or in a ReplayLog (whose records make such calls); its value and  *)
(* expiry change only in a Set of its key or a ReplayLog.  So a Get, Set   *)
(* or Delete of another key that does not evict it, a Len and the passing  *)
(* of time leave it as it is, and a Set that finds the list full evicts    *)
(* the entry at the back, though an expired one stands before it.          *)
C18_PassiveExpiry ==
  [][\A k \in Resident(A) :
       Expired(EntryOf(A, k))
         => /\ InList(A.LRU_deque, A.Cache[k])
            /\ LenCall("A") => ret'.n = Cardinality(Resident(A)) /\ kv' = kv
            /\ k \notin Resident(kv'["A"])
                 => \/ ret'.op \in {"Get", "DELETE"} /\ ret'.key = k
                    \/ ret'.op = "SET" /\ ret'.path = "evict" /\ BackKey(A) = k
                    \/ ret'.op = "ReplayLog"
            /\ (k \in Resident(kv'["A"]) /\ EntryOf(kv'["A"], k) # EntryOf(A, k))
                 => \/ ret'.op = "SET" /\ ret'.key = k
                    \/ ret'.op = "ReplayLog"
            /\ (ret'.op = "SET" /\ ret'.path = "evict" /\ ret' # ret /\ BackKey(A) # k)
                 => /\ k \in Resident(kv'["A"])
                    /\ BackKey(A) \notin Resident(kv'["A"])
                    /\ LenOp(kv'["A"]) = LenOp(A)]_vars

(* capacity 2: a, set with a TTL that has run out, stands before b, which  *)
(* has no expiry; the Set of c has just evicted b, and the expired a is    *)
(* still there and counted                                                 *)
C18_Witness ==
  /\ ret.op = "SET" /\ ret.path = "evict" /\ ret.key = GoString("c")
  /\ KeyOrder(A) = <<GoString("c"), GoString("a")>>
  /\ Expired(EntryOf(A, GoString("a")))
  /\ LenOp(A) = 2 /\ A.Capacity = 2

(* the last SET record of a key in a log of records *)
LastSetOf(lines, key) ==
  lines[CHOOSE n \in 1..Len(lines) :
          /\ lines[n].op = "SET" /\ lines[n].key = key.val
          /\ \A m \in (n + 1)..Len(lines) : ~(lines[m].op = "SET" /\ lines[m].key = key.val)]

(* C19 as stated: a Set on the persistent cache writes a record that       *)
(* carries ttl_ms exactly when the call has a TTL, whatever the duration;  *)
(* and an entry that a replay of the log leaves in the cache has an expiry *)
(* exactly when the record that set it carries ttl_ms.                     *)
C19_TTLSurvivesLog ==
  [][/\ \A s \in TTLSets :
          Set("A", s.key, s.value, s.ttl, TRUE)
            => (LastLine(files').ttl_ms # Nil) = (s.ttl # Nil)
     /\ ReplayLog("B", TestLogPath)
          => \A key \in Resident(kv'["B"]) :
               (EntryOf(kv'["B"], key).expiresAt # Nil) = (LastSetOf(files[TestLogPath], key).ttl_ms # Nil)]_vars

(* C20: an entry that ReplayLog leaves in the cache, set by a record with  *)
(* ttl_ms = T > 0, expires T milliseconds after the time of the replay,    *)
(* whenever the original Set was made; up to that time a Get of the key on *)
(* the replaying cache returns the value, also when the key has expired in *)
(* the cache that wrote the log.                                           *)
C20_ReplayRestartsTTL ==
  [][/\ ReplayLog("B", TestLogPath)
          => \A key \in Resident(kv'["B"]) :
               LET line == LastSetOf(files[TestLogPath], key)
               IN  (line.ttl_ms # Nil /\ Deref(line.ttl_ms) > 0)
                     => EntryOf(kv'["B"], key).expiresAt = Ptr(now + Deref(line.ttl_ms) * TicksPerMs)
     /\ \A key \in TTLKeys :
          (/\ Get("B", key)
           /\ key \in Resident(B)
           /\ EntryOf(B, key).expiresAt # Nil
           /\ now <= Deref(EntryOf(B, key).expiresAt))
            => ret'.ok /\ ret'.value = EntryOf(B, key).value /\ key \in Resident(kv'["B"])]_vars

(* b was set on A with a TTL of a millisecond at time 0, expired there and *)
(* was removed by a Get; B replayed the log two milliseconds after the     *)
(* Set, and its Get of b has just returned the value                       *)
C20_Witness ==
  /\ ret.op = "Get" /\ ret.ok /\ ret.key = GoString("b")
  /\ A.Capacity = 2
  /\ GoString("b") \notin Resident(A)
  /\ GoString("b") \in Resident(B)
  /\ now = 2 * TicksPerMs
  /\ EntryOf(B, GoString("b")).expiresAt = Ptr(now + TicksPerMs)

(* the records added to the log since the cache was built *)
NewLines == SubSeq(LogLines(files), Len(OwnLog) + 1, Len(LogLines(files)))

(* C21 as stated: on a cache built persistent, every Set and Delete of a   *)
(* caller that has changed the memory, and so returns true, has its record *)
(* in the log once it is past its append, also when a ReplayLog of the     *)
(* same cache is in progress: the records added to the log are those of    *)
(* these calls, in their order, but for the call that is about to append.  *)
C21_EveryCallLogged ==
  ctor.persistent
    => /\ Len(NewLines) = Len(applied) - Cardinality({p \in Procs : pc[p] = "append"})
       /\ \A n \in 1..Len(NewLines) : n <= Len(applied) => Records(NewLines[n], applied[n])

====
